---- MODULE Spec2Model ----
(***************************************************************************)
(* The four command-line scripts of mercury-gitops, .github/scripts:        *)
(*   provision-customer.py, deprovision-customer.py  (manifest directories  *)
(*   and apps/staging/kustomization.yaml)                                   *)
(*   update-terraform.py, remove-terraform.py        (main.tf)              *)
(*                                                                          *)
(* A text is a sequence of tokens.  A token is a run of characters that no *)
(* script ever takes apart: one character of whitespace or punctuation     *)
(* where the scripts look at single characters (" ", "\n", "-", "./", a    *)
(* digit), and a whole word or template fragment elsewhere ("customer",    *)
(* "resources:", 'resource "random_password" "').  Substring search,       *)
(* strip, split and join are computed on these sequences as Python         *)
(* computes them on characters.                                            *)
(***************************************************************************)
EXTENDS Integers, Sequences, FiniteSets, TLC

VARIABLES
    kust,       \* apps/staging/kustomization.yaml: its text, or Absent
    baseDirs,   \* the customers that have a directory apps/base/<c>
    stagingDirs,\* the customers that have a directory apps/staging/<c>
    klast,      \* the last run of provision / deprovision: [op, c, rc, wrote]
    kpre,       \* kust before that run
    kust0,      \* kust before the first run
    onlyProv,   \* every run so far was a provision run
    tf,         \* main.tf: its text, or Absent
    tlast,      \* the last run of update-terraform / remove-terraform
    tpre,       \* tf before that run
    prevAdd     \* the customer the run before the last one added to main.tf, or NoName

vars == <<kust, baseDirs, stagingDirs, klast, kpre, kust0, onlyProv,
          tf, tlast, tpre, prevAdd>>
kvars == <<kust, baseDirs, stagingDirs, klast, kpre, kust0, onlyProv>>
tvars == <<tf, tlast, tpre, prevAdd>>

\* the value of a file variable when the file does not exist (no text holds this token)
Absent == <<"<no file>">>
NoName == <<>>

\* ------------------------------------------------------------------ bounds
MaxEntries == 2
MaxBlocks == 2

\* ------------------------------------------------------------------- text
NL == "\n"
SP == " "

\* str.strip() / str.rstrip() / \s : the whitespace of the texts modelled
IsSpace(t) == t \in {SP, NL}

\* text[i:i+len(pat)] == pat   (i is 1-based)
StartsAt(text, pat, i) ==
    /\ i >= 1
    /\ i + Len(pat) - 1 <= Len(text)
    /\ \A k \in 1..Len(pat) : text[i + k - 1] = pat[k]

\* pat in text
Contains(text, pat) ==
    \E i \in 1..(Len(text) - Len(pat) + 1) : StartsAt(text, pat, i)

\* text.find(pat), 1-based; 0 where Python gives -1
Find(text, pat) ==
    IF Contains(text, pat)
    THEN CHOOSE i \in 1..(Len(text) - Len(pat) + 1) :
            /\ StartsAt(text, pat, i)
            /\ \A j \in 1..(i - 1) : ~StartsAt(text, pat, j)
    ELSE 0

\* line.startswith(pat)
StartsWith(text, pat) == StartsAt(text, pat, 1)

\* text.rstrip()
RECURSIVE RStrip(_)
RStrip(text) ==
    IF text = <<>> THEN <<>>
    ELSE IF IsSpace(text[Len(text)]) THEN RStrip(SubSeq(text, 1, Len(text) - 1))
    ELSE text

\* text.lstrip()
RECURSIVE LStrip(_)
LStrip(text) ==
    IF text = <<>> THEN <<>>
    ELSE IF IsSpace(Head(text)) THEN LStrip(Tail(text))
    ELSE text

\* text.strip()
Strip(text) == LStrip(RStrip(text))

\* text.split('\n'): the lines between the newlines, "" gives [""]
RECURSIVE Split(_)
Split(text) ==
    LET i == Find(text, <<NL>>) IN
    IF i = 0 THEN <<text>>
    ELSE <<SubSeq(text, 1, i - 1)>> \o Split(SubSeq(text, i + 1, Len(text)))

\* '\n'.join(lines)
RECURSIVE Join(_)
Join(lines) ==
    IF lines = <<>> THEN <<>>
    ELSE IF Len(lines) = 1 THEN lines[1]
    ELSE lines[1] \o <<NL>> \o Join(Tail(lines))

\* f.readlines(): the lines with their newline kept, "" gives []
RECURSIVE ReadLines(_)
ReadLines(text) ==
    LET i == Find(text, <<NL>>) IN
    IF text = <<>> THEN <<>>
    ELSE IF i = 0 THEN <<text>>
    ELSE <<SubSeq(text, 1, i)>> \o ReadLines(SubSeq(text, i + 1, Len(text)))

\* f.writelines(lines): the lines one after the other
RECURSIVE WriteLines(_)
WriteLines(lines) ==
    IF lines = <<>> THEN <<>> ELSE Head(lines) \o WriteLines(Tail(lines))

\* lines.insert(j, x) with j 0-based as in Python: x becomes element j+1
Insert(lines, j, x) ==
    SubSeq(lines, 1, j) \o <<x>> \o SubSeq(lines, j + 1, Len(lines))

\* ------------------------------------------------------------ customer names
Digits == {"0", "1", "2"}

N1 == <<"customer", "1">>
N10 == <<"customer", "1", "0">>
N2 == <<"customer", "2">>
NBare == <<"customer">>
NOther == <<"tenant", "1">>
NX1 == <<"x", "customer", "1">>

\* s.isdigit()
IsDigit(s) == Len(s) > 0 /\ \A i \in 1..Len(s) : s[i] \in Digits

\* customer_name.startswith("customer")
StartsWithCustomer(c) == Len(c) > 0 /\ c[1] = "customer"

\* customer_name.startswith("customer") and customer_name[8:].isdigit()
ValidName(c) == StartsWithCustomer(c) /\ IsDigit(Tail(c))

\* ------------------------------------------------- provision-customer.py
\* f"  - {customer_name}"
Entry(c) == <<SP, SP, "-", SP>> \o c

\* "  - ", what a resource entry starts with
EntryPrefix == <<SP, SP, "-", SP>>

\* for i, line in enumerate(lines): if line.strip() == "resources:"
\* the first such line (1-based), 0 when there is none
ResourcesLine(lines) ==
    IF \E i \in 1..Len(lines) : Strip(lines[i]) = <<"resources:">>
    THEN CHOOSE i \in 1..Len(lines) :
            /\ Strip(lines[i]) = <<"resources:">>
            /\ \A k \in 1..(i - 1) : Strip(lines[k]) # <<"resources:">>
    ELSE 0

\* while j < len(lines) and lines[j].startswith("  - "): j += 1
\* j is Python's 0-based index: lines[j] is the model's lines[j + 1]
RECURSIVE LastEntry(_, _)
LastEntry(lines, j) ==
    IF j < Len(lines) /\ StartsWith(lines[j + 1], EntryPrefix)
    THEN LastEntry(lines, j + 1)
    ELSE j

\* if f"  - {customer_name}" not in content
AlreadyListed(content, c) == Contains(content, Entry(c))

\* the text written back to the staging kustomization
AddToKustomization(content, c) ==
    LET lines == Split(Strip(content))
        r == ResourcesLine(lines)
        new == IF r = 0 THEN lines
               ELSE Insert(lines, LastEntry(lines, r), Entry(c))
    IN Join(new) \o <<NL>>

NoRun == [op |-> "none", c |-> NoName, rc |-> 0, wrote |-> FALSE]

\* main() and provision_customer()
Provision(c) ==
    /\ kpre' = kust
    /\ onlyProv' = onlyProv
    /\ IF ~StartsWithCustomer(c)
       THEN /\ klast' = [op |-> "provision", c |-> c, rc |-> 1, wrote |-> FALSE]
            /\ UNCHANGED <<kust, baseDirs, stagingDirs>>
       ELSE /\ baseDirs' = baseDirs \cup {c}
            /\ stagingDirs' = stagingDirs \cup {c}
            /\ IF kust # Absent /\ ~AlreadyListed(kust, c)
               THEN /\ kust' = AddToKustomization(kust, c)
                    /\ klast' = [op |-> "provision", c |-> c, rc |-> 0, wrote |-> TRUE]
               ELSE /\ kust' = kust
                    /\ klast' = [op |-> "provision", c |-> c, rc |-> 0, wrote |-> FALSE]
    /\ UNCHANGED <<kust0, tvars>>

\* ----------------------------------------------- deprovision-customer.py
\* if f"- ./{customer_name}" in line or f"- {customer_name}" in line
References(line, c) ==
    \/ Contains(line, <<"-", SP, "./">> \o c)
    \/ Contains(line, <<"-", SP>> \o c)

\* update_staging_kustomization: the text written back
RemoveFromKustomization(content, c) ==
    WriteLines(SelectSeq(ReadLines(content), LAMBDA line : ~References(line, c)))

\* main(), remove_customer_directories() and update_staging_kustomization()
Deprovision(c) ==
    /\ kpre' = kust
    /\ onlyProv' = FALSE
    /\ IF ~ValidName(c)
       THEN /\ klast' = [op |-> "deprovision", c |-> c, rc |-> 1, wrote |-> FALSE]
            /\ UNCHANGED <<kust, baseDirs, stagingDirs>>
       ELSE /\ baseDirs' = baseDirs \ {c}
            /\ stagingDirs' = stagingDirs \ {c}
            /\ IF kust # Absent
               THEN /\ kust' = RemoveFromKustomization(kust, c)
                    /\ klast' = [op |-> "deprovision", c |-> c, rc |-> 0, wrote |-> TRUE]
               ELSE /\ kust' = kust
                    /\ klast' = [op |-> "deprovision", c |-> c, rc |-> 0, wrote |-> FALSE]
    /\ UNCHANGED <<kust0, tvars>>

\* ------------------------------------------- the staging kustomization files
Customers == {N1, N10, N2}
KInputs == {N1, N10, NBare, NOther}

\* "  - ./c" and "- c": other ways a resource entry is written
DotEntry(c) == <<SP, SP, "-", SP, "./">> \o c
FlatEntry(c) == <<"-", SP>> \o c

EntryLines == {Entry(N1), Entry(N10), DotEntry(N1), Entry(N2), FlatEntry(N2)}

\* the sequences over S of length at most n
SeqsUpTo(S, n) == UNION {[1..k -> S] : k \in 0..n}

\* a file: an optional first line, an optional "resources:" line, the entries,
\* an optional last line, and what the file ends with
KustFile(first, res, entries, last, ending) ==
    LET lines == (IF first THEN <<<<"kind: Kustomization">>>> ELSE <<>>)
                 \o (IF res THEN <<<<"resources:">>>> ELSE <<>>)
                 \o entries
                 \o (IF last THEN <<<<"namespace: staging">>>> ELSE <<>>)
    IN Join(lines) \o ending

KustFiles ==
    {KustFile(first, res, entries, last, ending) :
        first \in BOOLEAN, res \in BOOLEAN,
        entries \in SeqsUpTo(EntryLines, MaxEntries),
        last \in BOOLEAN, ending \in {<<>>, <<NL>>}}

\* the customers a file's lines name
Listed(content) ==
    IF content = Absent THEN {}
    ELSE {c \in Customers : \E i \in 1..Len(Split(content)) :
            Strip(Split(content)[i]) \in {FlatEntry(c), <<"-", SP, "./">> \o c}}

InitK ==
    /\ kust \in KustFiles \cup {Absent}
    /\ baseDirs = Listed(kust)
    /\ stagingDirs = Listed(kust)
    /\ klast = NoRun
    /\ kpre = kust
    /\ kust0 = kust
    /\ onlyProv = TRUE
    /\ tf = Absent
    /\ tlast = NoRun
    /\ tpre = Absent
    /\ prevAdd = NoName

NextK ==
    \/ \E c \in KInputs : Provision(c)
    \/ \E c \in KInputs : Deprovision(c)

SpecK == InitK /\ [][NextK]_vars

\* --------------------------------------------------- update-terraform.py
\* str.upper() and str.capitalize() on a name, token by token
UpperTok(t) ==
    CASE t = "customer" -> "CUSTOMER"
      [] t = "x" -> "X"
      [] t = "tenant" -> "TENANT"
      [] OTHER -> t

CapTok(t) ==
    CASE t = "customer" -> "Customer"
      [] t = "x" -> "X"
      [] t = "tenant" -> "Tenant"
      [] OTHER -> t

\* customer_name.upper()
Upper(c) == [i \in 1..Len(c) |-> UpperTok(c[i])]

\* customer_name.capitalize(): the first character upper case, the rest lower
Capitalize(c) == [i \in 1..Len(c) |-> IF i = 1 THEN CapTok(c[i]) ELSE c[i]]

RRP == "resource \"random_password\" \""
RKV == "resource \"azurerm_key_vault_secret\" \""
DEP == "depends_on = [azurerm_role_assignment.kv_admin]"
MARKER == "output \"key_vault_name\""

\* "## <NAME> DB credentials" with the name as written
Header(name) == <<"## ">> \o name \o <<" DB credentials">>

\* 'resource "random_password" "{customer_name}_db_password"'
PasswordResource(c) == <<RRP>> \o c \o <<"_db_password\"">>
\* 'resource "azurerm_key_vault_secret" "{customer_name}_db_user"'
UserSecret(c) == <<RKV>> \o c \o <<"_db_user\"">>
\* 'resource "azurerm_key_vault_secret" "{customer_name}_db_password"'
PasswordSecret(c) == <<RKV>> \o c \o <<"_db_password\"">>

\* TERRAFORM_TEMPLATE with the header's name already rendered
Block(headerName, c) ==
    <<NL>> \o Header(headerName) \o <<NL, NL>>
    \o PasswordResource(c) \o <<SP, "{", NL,
         "  length  = 24", NL,
         "  special = false", NL,
         NL,
         "  lifecycle {", NL,
         "    ignore_changes = all", NL,
         "  }", NL,
         "}", NL, NL>>
    \o UserSecret(c) \o <<SP, "{", NL, "  name         = \"">> \o c \o <<"-db-user\"", NL,
         "  value        = \"app\"", NL,
         "  key_vault_id = azurerm_key_vault.mercury_vault.id", NL,
         NL,
         SP, SP, DEP, NL,
         "}", NL, NL>>
    \o PasswordSecret(c) \o <<SP, "{", NL, "  name         = \"">> \o c \o <<"-db-password\"", NL,
         "  value        = random_password.">> \o c \o <<"_db_password.result", NL,
         "  key_vault_id = azurerm_key_vault.mercury_vault.id", NL,
         NL,
         SP, SP, DEP, NL,
         "}", NL>>

\* TERRAFORM_TEMPLATE.format(customer_name=c, CUSTOMER_NAME_UPPER=c.upper())
Render(c) == Block(Upper(c), c)

\* the check without the quote that opens the resource name
AlreadyInTerraform_NoQuote(content, c) == Contains(content, c \o <<"_db_password\"">>)

\* if f'resource "random_password" "{customer_name}_db_password"' in content
AlreadyInTerraform(content, c) == Contains(content, PasswordResource(c))

\* the append without content.rstrip()
AddToTerraform_NoStrip(content, c) ==
    LET output_index == Find(content, <<MARKER>>) IN
    IF output_index = 0
    THEN content \o <<NL>> \o Render(c)
    ELSE SubSeq(content, 1, output_index - 1) \o Render(c) \o <<NL>>
         \o SubSeq(content, output_index, Len(content))

\* updated_content
AddToTerraform(content, c) ==
    LET output_index == Find(content, <<MARKER>>) IN
    IF output_index = 0
    THEN RStrip(content) \o <<NL>> \o Render(c)
    ELSE SubSeq(content, 1, output_index - 1) \o Render(c) \o <<NL>>
         \o SubSeq(content, output_index, Len(content))

\* what the run before the coming one added to a file that held nothing of the
\* customer (kept for the claims)
NothingOf(text, c) ==
    /\ ~Contains(text, Header(Upper(c)))
    /\ ~Contains(text, Header(Capitalize(c)))
    /\ ~Contains(text, PasswordResource(c))
    /\ ~Contains(text, UserSecret(c))
    /\ ~Contains(text, PasswordSecret(c))

JustAdded ==
    IF tlast.op = "add" /\ tlast.wrote /\ NothingOf(tpre, tlast.c)
    THEN tlast.c ELSE NoName

\* main() and update_terraform()
UpdateTerraform(c) ==
    /\ tpre' = tf
    /\ prevAdd' = JustAdded
    /\ IF tf = Absent
       THEN /\ tlast' = [op |-> "add", c |-> c, rc |-> 1, wrote |-> FALSE]
            /\ tf' = tf
       ELSE IF AlreadyInTerraform(tf, c)
       THEN /\ tlast' = [op |-> "add", c |-> c, rc |-> 0, wrote |-> FALSE]
            /\ tf' = tf
       ELSE /\ tlast' = [op |-> "add", c |-> c, rc |-> 0, wrote |-> TRUE]
            /\ tf' = AddToTerraform(tf, c)
    /\ UNCHANGED kvars

\* --------------------------------------------------- remove-terraform.py
\* the first index >= from where pat starts, 0 when there is none
FindFrom(text, pat, from) ==
    IF \E i \in from..(Len(text) - Len(pat) + 1) : StartsAt(text, pat, i)
    THEN CHOOSE i \in from..(Len(text) - Len(pat) + 1) :
            /\ StartsAt(text, pat, i)
            /\ \A j \in from..(i - 1) : ~StartsAt(text, pat, j)
    ELSE 0

\* the first index >= i that holds no whitespace (Len(text) + 1 at the end)
RECURSIVE SkipSpace(_, _)
SkipSpace(text, i) ==
    IF i <= Len(text) /\ IsSpace(text[i]) THEN SkipSpace(text, i + 1) ELSE i

\* \s*\}\s*\n matched at i: the index after the match, 0 when it does not match.
\* Both \s* are greedy and give back up to the last newline of the second run.
TailEnd(text, i) ==
    LET a == SkipSpace(text, i) IN
    IF a <= Len(text) /\ text[a] = "}"
    THEN LET b == SkipSpace(text, a + 1)
             nls == {k \in (a + 1)..(b - 1) : text[k] = NL}
         IN IF nls = {} THEN 0
            ELSE (CHOOSE k \in nls : \A m \in nls : m <= k) + 1
    ELSE 0

\* depends_on = \[azurerm_role_assignment\.kv_admin\]\s*\}\s*\n after a lazy
\* .*? from index from: the end of the match at the first place it matches
DependsEnd(text, from) ==
    LET Q == {q \in from..Len(text) : text[q] = DEP /\ TailEnd(text, q + 1) # 0} IN
    IF Q = {} THEN 0
    ELSE TailEnd(text, (CHOOSE q \in Q : \A m \in Q : q <= m) + 1)

\* the pattern with the header as update-terraform.py writes it (upper case)
MatchEndAt_Upper(text, c, s) ==
    LET header == Header(Upper(c))
        secret == PasswordSecret(c) \o <<SP, "{">>
        p == FindFrom(text, secret, s + Len(header))
    IN IF ~StartsAt(text, header, s) \/ p = 0 THEN 0
       ELSE DependsEnd(text, p + Len(secret))

\* the match of the pattern that starts with the header at s: its end, or 0
MatchEndAt(text, c, s) ==
    LET header == Header(Capitalize(c))
        secret == PasswordSecret(c) \o <<SP, "{">>
        p == FindFrom(text, secret, s + Len(header))
    IN IF ~StartsAt(text, header, s) \/ p = 0 THEN 0
       ELSE DependsEnd(text, p + Len(secret))

\* pattern.search(content): <<match.start(), match.end()>> 1-based, end
\* exclusive; <<0, 0>> for no match
Search(text, c) ==
    LET S == {s \in 1..Len(text) : MatchEndAt(text, c, s) # 0} IN
    IF S = {} THEN <<0, 0>>
    ELSE LET s == CHOOSE x \in S : \A y \in S : x <= y
         IN <<s, MatchEndAt(text, c, s)>>

\* new_content = content[:match.start()] + content[match.end():]
CutMatch(content, m) ==
    SubSeq(content, 1, m[1] - 1) \o SubSeq(content, m[2], Len(content))

\* main() and remove_customer_terraform()
RemoveTerraform(c) ==
    /\ tpre' = tf
    /\ prevAdd' = JustAdded
    /\ IF ~ValidName(c) \/ tf = Absent
       THEN /\ tlast' = [op |-> "remove", c |-> c, rc |-> 1, wrote |-> FALSE]
            /\ tf' = tf
       ELSE IF Search(tf, c) # <<0, 0>>
       THEN /\ tlast' = [op |-> "remove", c |-> c, rc |-> 0, wrote |-> TRUE]
            /\ tf' = CutMatch(tf, Search(tf, c))
       ELSE /\ tlast' = [op |-> "remove", c |-> c, rc |-> 0, wrote |-> FALSE]
            /\ tf' = tf
    /\ UNCHANGED kvars

\* ------------------------------------------------------------ the main.tf files
TInputs == {N1, N10, NX1}

\* a header of customer1 with none of its resources under it
StaleHeader == <<NL>> \o Header(Capitalize(N1)) \o <<NL>>

\* the blocks a file starts with: written by hand (capitalised header) or by
\* update-terraform.py (upper-case header)
Blocks == {Block(Capitalize(N1), N1), Block(Capitalize(N10), N10), Block(Upper(NX1), NX1)}

Outputs ==
    <<NL, MARKER, SP, "{", NL,
      "  value = azurerm_key_vault.mercury_vault.name", NL, "}", NL>>

\* what follows the blocks: the outputs section, nothing, or blank lines
Tails == {Outputs, <<>>, <<NL, NL>>}

TfFile(stale, blocks, tail) ==
    <<"resource \"azurerm_key_vault\" \"mercury_vault\" {}", NL>>
    \o (IF stale THEN StaleHeader ELSE <<>>)
    \o WriteLines(blocks)
    \o tail

TfFiles ==
    {TfFile(stale, blocks, tail) :
        stale \in BOOLEAN, blocks \in SeqsUpTo(Blocks, MaxBlocks), tail \in Tails}

InitT ==
    /\ tf \in TfFiles \cup {Absent}
    /\ tlast = NoRun
    /\ tpre = tf
    /\ prevAdd = NoName
    /\ kust = Absent
    /\ baseDirs = {}
    /\ stagingDirs = {}
    /\ klast = NoRun
    /\ kpre = Absent
    /\ kust0 = Absent
    /\ onlyProv = TRUE

NextT ==
    \/ \E c \in TInputs : UpdateTerraform(c)
    \/ \E c \in TInputs : RemoveTerraform(c)

SpecT == InitT /\ [][NextT]_vars

\* ---------------------------------------- claims on the staging kustomization
\* the lines of a text, without their newlines
LinesOf(text) ==
    [i \in 1..Len(ReadLines(text)) |->
        SelectSeq(ReadLines(text)[i], LAMBDA t : t # NL)]

\* line is customer c's entry, written "  - c" or "  - ./c"
IsEntryOf(line, c) == line = Entry(c) \/ line = DotEntry(c)

\* the number of lines of text that are entries of c
RefCount(text, c) ==
    Cardinality({i \in 1..Len(LinesOf(text)) : IsEntryOf(LinesOf(text)[i], c)})

\* lines without its element i
RemoveAt(lines, i) == SubSeq(lines, 1, i - 1) \o SubSeq(lines, i + 1, Len(lines))

\* C2: after Deprovision(c) the staging kustomization holds the lines it held
\* before, in the same order, except the entries of c: no entry of c is left
\* and no other line (an entry of customer10 when c is customer1) is lost.
C2_DeprovisionRemovesOnlyC ==
    (klast.op = "deprovision" /\ klast.rc = 0 /\ kpre # Absent) =>
        LinesOf(kust) =
            SelectSeq(LinesOf(kpre), LAMBDA line : ~IsEntryOf(line, klast.c))

\* C3: after Provision(c) on a staging kustomization with a "resources:" line
\* the file has the line "  - c", after every resource entry it had before,
\* and the lines it had before are all there in the same order.
C3_ProvisionListsC ==
    (/\ klast.op = "provision" /\ klast.rc = 0 /\ kpre # Absent
     /\ \E k \in 1..Len(LinesOf(kpre)) : LinesOf(kpre)[k] = <<"resources:">>) =>
        LET before == LinesOf(kpre)
            after == LinesOf(kust)
            c == klast.c
        IN IF \E k \in 1..Len(before) : before[k] = Entry(c)
           THEN after = before
           ELSE \E i \in 1..Len(after) :
                    /\ after[i] = Entry(c)
                    /\ RemoveAt(after, i) = before
                    /\ \A k \in 1..Len(before) :
                           StartsWith(before[k], EntryPrefix) => k < i

\* C7: from a staging kustomization that references each customer by at most
\* one line, provision runs alone never lead to one that references a customer
\* by two lines, and Provision(c) leaves a file that references c as it is.
C7_ProvisionNoDuplicate ==
    /\ (onlyProv /\ kust0 # Absent /\ \A c \in Customers : RefCount(kust0, c) <= 1) =>
           \A c \in Customers : RefCount(kust, c) <= 1
    /\ (klast.op = "provision" /\ kpre # Absent /\ RefCount(kpre, klast.c) >= 1) =>
           kust = kpre

\* ------------------------------------------------------- claims on main.tf
\* the number of places where pat starts in text
Count(text, pat) == Cardinality({i \in 1..Len(text) : StartsAt(text, pat, i)})

\* the three resources of customer c
ResourcesOf(c) == {PasswordResource(c), UserSecret(c), PasswordSecret(c)}

\* text[from..to) is whitespace
AllSpace(text, from, to) == \A k \in from..(to - 1) : IsSpace(text[k])

\* the pattern of remove-terraform.py has a match in text: a capitalised
\* header of c, later c's password secret and its opening brace, later a
\* depends_on line closed by a brace and a newline
HasBlock(text, c) ==
    \E s \in 1..Len(text) :
        /\ StartsAt(text, Header(Capitalize(c)), s)
        /\ \E p \in (s + Len(Header(Capitalize(c))))..Len(text) :
            /\ StartsAt(text, PasswordSecret(c) \o <<SP, "{">>, p)
            /\ \E q \in (p + Len(PasswordSecret(c)) + 2)..Len(text) :
                /\ text[q] = DEP
                /\ \E a \in (q + 1)..Len(text) :
                    /\ text[a] = "}"
                    /\ AllSpace(text, q + 1, a)
                    /\ \E e \in (a + 1)..Len(text) :
                        text[e] = NL /\ AllSpace(text, a + 1, e)

\* C1: Terraform-remove(c) right after Terraform-add(c) on a file that held
\* nothing of c leaves a file with none of c's resources and no header of c.
C1_RemoveUndoesAdd ==
    (tlast.op = "remove" /\ tlast.rc = 0 /\ prevAdd # NoName /\ tlast.c = prevAdd) =>
        NothingOf(tf, tlast.c)

\* C4 as stated: the block of a customer not yet in the file is put before the
\* marker, or at the end of the file when there is no marker, and the text
\* before it and the text from the marker on are the file's text as it was.
C4_AddKeepsTextAsStated ==
    (tlast.op = "add" /\ tpre # Absent /\ ~Contains(tpre, PasswordResource(tlast.c))) =>
        LET block == Render(tlast.c)
            i == Find(tpre, <<MARKER>>)
        IN IF i # 0
           THEN /\ SubSeq(tf, 1, i - 1) = SubSeq(tpre, 1, i - 1)
                /\ StartsAt(tf, block, i)
                /\ SubSeq(tf, Len(tf) - (Len(tpre) - i), Len(tf))
                       = SubSeq(tpre, i, Len(tpre))
           ELSE /\ SubSeq(tf, 1, Len(tpre)) = tpre
                /\ SubSeq(tf, Len(tf) - Len(block) + 1, Len(tf)) = block

\* C4 as amended: before the marker the block is followed by one newline and
\* the text on both sides is unchanged; with no marker the file becomes its
\* old text without its trailing whitespace, one newline, and the block.
C4_AddKeepsText ==
    (tlast.op = "add" /\ tpre # Absent /\ ~Contains(tpre, PasswordResource(tlast.c))) =>
        LET block == Render(tlast.c)
            n == Len(block)
        IN /\ tlast.wrote /\ tlast.rc = 0
           /\ IF \E i \in 1..Len(tpre) : tpre[i] = MARKER
              THEN \E i \in 1..Len(tpre) :
                     /\ tpre[i] = MARKER
                     /\ \A j \in 1..(i - 1) : tpre[j] # MARKER
                     /\ Len(tf) = Len(tpre) + n + 1
                     /\ \A j \in 1..(i - 1) : tf[j] = tpre[j]
                     /\ StartsAt(tf, block, i)
                     /\ tf[i + n] = NL
                     /\ \A j \in i..Len(tpre) : tf[j + n + 1] = tpre[j]
              ELSE \E k \in 0..Len(tpre) :
                     /\ AllSpace(tpre, k + 1, Len(tpre) + 1)
                     /\ k > 0 => ~IsSpace(tpre[k])
                     /\ Len(tf) = k + 1 + n
                     /\ \A j \in 1..k : tf[j] = tpre[j]
                     /\ tf[k + 1] = NL
                     /\ StartsAt(tf, block, k + 2)

\* the block of customer1 went to the end of a file without marker that ended
\* in blank lines after the block of customer10
C4_Witness ==
    /\ tlast.op = "add" /\ tlast.wrote /\ tlast.c = N1
    /\ ~Contains(tpre, <<MARKER>>)
    /\ Len(RStrip(tpre)) < Len(tpre) - 1
    /\ Contains(tpre, PasswordResource(N10))

\* C5: Terraform-remove(c) leaves every resource of every other customer in
\* the file.
C5_RemoveKeepsOthers ==
    (tlast.op = "remove" /\ tlast.rc = 0 /\ tpre # Absent) =>
        \A d \in TInputs \ {tlast.c} : \A r \in ResourcesOf(d) :
            Contains(tpre, r) => Contains(tf, r)

\* C6: Terraform-add(c) on an existing file returns 0; a file that holds c's
\* random_password resource is left as it is; a file that held at most one
\* block of c (told by its random_password resource) holds exactly one
\* afterwards, each resource of c being added once or not at all; and the
\* blocks of customers with longer names (customer10, xcustomer1) neither
\* count as c's nor change.
C6_AddIdempotent ==
    (tlast.op = "add" /\ tpre # Absent) =>
        /\ tlast.rc = 0
        /\ Count(tpre, PasswordResource(tlast.c)) >= 1 => (tf = tpre /\ ~tlast.wrote)
        /\ Count(tpre, PasswordResource(tlast.c)) <= 1 =>
               Count(tf, PasswordResource(tlast.c)) = 1
        /\ \A r \in ResourcesOf(tlast.c) :
               Count(tf, r) = Count(tpre, r) + (IF tlast.wrote THEN 1 ELSE 0)
        /\ \A d \in TInputs \ {tlast.c} : \A r \in ResourcesOf(d) :
               Count(tf, r) = Count(tpre, r)

\* a second Terraform-add(customer1) in a row, on a file that also holds the
\* blocks of customer10 and xcustomer1, wrote nothing
C6_Witness ==
    /\ tlast.op = "add" /\ tlast.c = N1 /\ prevAdd = N1 /\ ~tlast.wrote
    /\ Count(tf, PasswordResource(N1)) = 1
    /\ Contains(tf, PasswordResource(N10))
    /\ Contains(tf, PasswordResource(NX1))

\* C8: Terraform-remove(c) for a valid c on a file where the pattern has no
\* match writes nothing, leaves the file as it is and ends with status 0; when
\* there is no file it ends with status 1 and there is still no file.
C8_RemoveNotFound ==
    (tlast.op = "remove" /\ ValidName(tlast.c)) =>
        /\ tpre = Absent => (tlast.rc = 1 /\ tf = Absent /\ ~tlast.wrote)
        /\ (tpre # Absent /\ ~HasBlock(tpre, tlast.c)) =>
               (tf = tpre /\ ~tlast.wrote /\ tlast.rc = 0)

\* Terraform-remove(customer10) found nothing in a file that holds the block of
\* customer1 and nothing of customer10
C8_Witness ==
    /\ tlast.op = "remove" /\ tlast.c = N10 /\ tlast.rc = 0 /\ ~tlast.wrote
    /\ tpre # Absent /\ tf = tpre
    /\ NothingOf(tpre, N10)
    /\ HasBlock(tpre, N1)

====
